---- MODULE Spec2Model ----
(***************************************************************************)
(* Model of the fcm-receiver client: the notification stream               *)
(* (Client::notifications), the retry driver (Client::connect), one        *)
(* connection attempt (Client::try_connect, Client::login_request) and     *)
(* the frame codec (read_vlq_u32, read_message, Message::decode).          *)
(*                                                                         *)
(* Spec      : the notification stream as a state machine.  Everything the *)
(*             relay, the network and the check-in endpoint do is an       *)
(*             input chosen with \E.                                       *)
(* SpecCodec : read_message run byte by byte over a byte source.           *)
(* SpecFrames : read_message called again and again on a source written    *)
(*             frame by frame, the client's login-request frame included.  *)
(* SpecDecrypt : Client::decrypt and DataMessageStanza::app_data run step   *)
(*             by step over a stanza's list of app-data entries.           *)
(***************************************************************************)
EXTENDS Integers, Sequences, FiniteSets, TLC

\* ------------------------------------------------------------------ bounds
\* Persistent-ids the relay may put on a data message: 1..MaxIds.
MaxIds == 2
\* Items the consumer takes from the stream before it stops polling.
MaxItems == 2
\* try_connect failures the environment injects into one connect() call.
MaxRetry == 6
\* VLQ sample: every value 0..MaxVlqSmall is encoded and decoded.
MaxVlqSmall == 130
\* Body bytes the byte source may hold after the length prefix: 0..MaxAvail.
MaxAvail == 3
\* App-data entries a data stanza may carry: 0..MaxEntries.
MaxEntries == 3
\* Frames written to one byte source: 0..MaxFrames.
MaxFrames == 3

\* ------------------------------------------------------- program constants
\* lib.rs:47
MCS_VERSION == 41
\* lib.rs:93  Duration::from_secs(80)
connect_retry_timeout_max == 80
\* lib.rs:167 Duration::from_secs(5)
RETRY_TIMEOUT_BASE == 5
\* mcs.rs:100  for _ in 0..4
VLQ_MAX_GROUPS == 4
\* mcs.rs:12  LoginRequest::TAG
LoginRequest_TAG == 2
\* lib.rs:210  value[3..]
DH_PREFIX_LEN == 3
\* lib.rs:211  value[5..]
SALT_PREFIX_LEN == 5

Ids == 1..MaxIds

Min(a, b) == IF a <= b THEN a ELSE b

Range(s) == {s[i] : i \in 1..Len(s)}

\* Vec::contains (lib.rs:140)
Contains(s, x) == \E i \in 1..Len(s) : s[i] = x

VARIABLES
    \* ---- Client and the notification stream (lib.rs)
    pc,              \* where the stream's task is suspended
    tc,              \* the step of try_connect that runs next
    android_id_ok,   \* gcm_credentials.android_id parses as i64 (lib.rs:243-245)
    persistent_ids,  \* Client::persistent_ids
    retry_attempt,   \* connect(): retry_attempt, 0 until the first failure
    retry_timeout,   \* connect(): retry_timeout in seconds, 0 until the first failure
    request,         \* try_connect(): received_persistent_id of the LoginRequest built
    items,           \* what the stream has yielded to its consumer, in order
    \* ---- history of the run (read by the properties only)
    delays,          \* the delays slept by the connect() call made last
    earlier,         \* the connect() call before it slept the maximum delay
    held,            \* ids held when the last read error forced a reconnect
    accepted,        \* ids accepted since the last login-response
    prevData,        \* the data stanza dispatched last on this connection, with
                     \* whether its id was new, the items yielded before it and
                     \* whether a stanza with the same id was dropped after it
    last,            \* the step taken last: what ran, whether it succeeded, and
                     \* the id, tag, version or count it was about
    \* ---- the frame codec (mcs.rs)
    source,          \* the byte source
    pos,             \* bytes consumed from it
    cpc,             \* where read_message is suspended
    tag,             \* read_message: tag
    shift,           \* read_vlq_u32: shift
    value,           \* read_vlq_u32: value
    group,           \* read_vlq_u32: iterations of the loop completed
    size,            \* read_message: size
    body_ok,         \* the body bytes decode as the message kind of the tag
    enc_value,       \* the value whose encoding the source holds, -1 if raw bytes
    result,          \* what read_message returned
    rest,            \* bytes of the source that follow `source`, not spelled out
    frames,          \* the frames the source was written from, <<>> if raw bytes
    returned,        \* what the successful calls returned (the login request
                     \* decoded, if it was one) and where each ended
    \* ---- decrypt and the header lookup (lib.rs, mcs.rs)
    app_data,        \* DataMessageStanza::app_data, the stanza's entries in order
    dpc,             \* where decrypt / app_data is suspended
    caller,          \* which call of app_data is running
    key,             \* app_data(): key
    idx,             \* app_data(): the entry the loop examines next
    found,           \* app_data(): result, 0 for None, else the entry's index
    looked,          \* what the app_data call made last returned
    crypto_key,      \* decrypt(): crypto_key, the DH value past its prefix
    salt,            \* decrypt(): salt, the salt value past its prefix
    outcome          \* what decrypt returned, or that it panicked

streamVars == <<pc, tc, android_id_ok, persistent_ids, retry_attempt, retry_timeout,
                request, items, delays, earlier, held, accepted,
                prevData, last>>
codecVars == <<source, pos, cpc, tag, shift, value, group, size, body_ok, enc_value,
               result, rest, frames, returned>>
decryptVars == <<app_data, dpc, caller, key, idx, found, looked, crypto_key, salt,
                 outcome>>
vars == <<streamVars, codecVars, decryptVars>>


\* ------------------------------------------------------------ Message kinds
\* mcs.rs:17-25, enum Message
MessageKinds == {"HeartbeatPing", "HeartbeatAck", "LoginRequest", "LoginResponse",
                 "Close", "IqStanza", "DataMessageStanza"}

Ok(kind, t) == [ok |-> TRUE, kind |-> kind, tag |-> t]
Err(kind, t) == [ok |-> FALSE, kind |-> kind, tag |-> t]

\* A decode that also accepts the tags 5 and 6 of the full MCS tag table.
Message_decode_open(t, bodyOk) ==
    IF t \in {0, 1, 2, 3, 4, 5, 6, 7, 8}
    THEN IF bodyOk
         THEN Ok(CASE t = 0 -> "HeartbeatPing" [] t = 1 -> "HeartbeatAck"
                   [] t = 2 -> "LoginRequest"  [] t = 3 -> "LoginResponse"
                   [] t = 4 -> "Close"         [] t = 5 -> "IqStanza"
                   [] t = 6 -> "IqStanza"      [] t = 7 -> "IqStanza"
                   [] t = 8 -> "DataMessageStanza", t)
         ELSE Err("ProstDecode", t)
    ELSE Err("UnknownTag", t)

\* mcs.rs:29-40, Message::decode.  bodyOk: the prost decode of the body as the
\* kind the tag selects succeeds (the `?` of each arm).
Message_decode(t, bodyOk) ==
    CASE t = 0 -> IF bodyOk THEN Ok("HeartbeatPing", t) ELSE Err("ProstDecode", t)
      [] t = 1 -> IF bodyOk THEN Ok("HeartbeatAck", t) ELSE Err("ProstDecode", t)
      [] t = 2 -> IF bodyOk THEN Ok("LoginRequest", t) ELSE Err("ProstDecode", t)
      [] t = 3 -> IF bodyOk THEN Ok("LoginResponse", t) ELSE Err("ProstDecode", t)
      [] t = 4 -> IF bodyOk THEN Ok("Close", t) ELSE Err("ProstDecode", t)
      [] t = 7 -> IF bodyOk THEN Ok("IqStanza", t) ELSE Err("ProstDecode", t)
      [] t = 8 -> IF bodyOk THEN Ok("DataMessageStanza", t) ELSE Err("ProstDecode", t)
      [] OTHER -> Err("UnknownTag", t)

\* ------------------------------------------------- the notification stream
\* What the relay and the transport can make one read_message call meet:
\* an I/O failure, a length of more than four groups, or a whole frame with
\* some tag and a body that decodes or not.
ReadFaults == {"none", "TokioIo", "VlqTooLarge"}
StreamTags == {-1, 0, 1, 2, 3, 4, 5, 7, 8, 99}
Frames ==
    [fault : {"none"}, tag : StreamTags, body_ok : BOOLEAN]
    \cup [fault : ReadFaults \ {"none"}, tag : {0}, body_ok : {TRUE}]

\* mcs.rs:112-123, read_message, over one frame of the connection
read_message(f) ==
    IF f.fault # "none" THEN Err(f.fault, 0) ELSE Message_decode(f.tag, f.body_ok)

\* What can be wrong with a data stanza's encryption headers and payload.
StanzaFaults == {"none", "missing_crypo_key", "missing_encryption",
                 "short_crypo_key", "short_encryption", "bad_base64", "ece"}

\* lib.rs:209-225, Client::decrypt: plaintext, a DecryptError, or a panic of
\* the slice `value[3..]` / `value[5..]` on a header value shorter than that.
decrypt(fault) ==
    CASE fault = "none" -> [out |-> "plaintext", err |-> "none"]
      [] fault = "missing_crypo_key" -> [out |-> "error", err |-> "MissingData"]
      [] fault = "missing_encryption" -> [out |-> "error", err |-> "MissingData"]
      [] fault = "short_crypo_key" -> [out |-> "panic", err |-> "none"]
      [] fault = "short_encryption" -> [out |-> "panic", err |-> "none"]
      [] fault = "bad_base64" -> [out |-> "error", err |-> "Base64Decode"]
      [] fault = "ece" -> [out |-> "error", err |-> "Ece"]

Item(kind, id, err) == [kind |-> kind, id |-> id, err |-> err]
Step(op, ok, arg) == [op |-> op, ok |-> ok, arg |-> arg]
NoData == [id |-> 0, fresh |-> FALSE, n |-> 0, dropped |-> FALSE]

\* Client::new (lib.rs:83-96), then the stream's first poll enters connect().
StreamInit ==
    /\ pc = "try_connect"
    /\ tc = "check_in"
    /\ android_id_ok \in BOOLEAN
    /\ persistent_ids = <<>>
    /\ retry_attempt = 0
    /\ retry_timeout = 0
    /\ request = <<>>
    /\ items = <<>>
    /\ delays = <<>>
    /\ earlier = FALSE
    /\ held = {}
    /\ accepted = {}
    /\ prevData = NoData
    /\ last = Step("new", TRUE, 0)

\* The fields of LoginRequest the model keeps: one of its fixed strings, the
\* persistent-ids, and the two flags.
LoginRequestMsg(id, ids, ah, rmq) ==
    [id |-> id, received_persistent_id |-> ids, adaptive_heartbeat |-> ah,
     use_rmq2 |-> rmq]

\* LoginRequest::default()
DefaultLoginRequest == LoginRequestMsg(<<>>, <<>>, 0, 0)

\* No LoginRequest was decoded.
NoMessage == LoginRequestMsg(<<>>, <<>>, -1, -1)

CodecIdle ==
    /\ source = <<>>
    /\ pos = 0
    /\ cpc = "idle"
    /\ tag = 0
    /\ shift = 0
    /\ value = 0
    /\ group = 0
    /\ size = 0
    /\ body_ok = TRUE
    /\ enc_value = -1
    /\ result = Ok("none", 0)
    /\ rest = 0
    /\ frames = <<>>
    /\ returned = <<>>

\* A header value: its length in bytes and whether what follows the prefix
\* is valid URL-safe base64.
Value(len, b64) == [len |-> len, b64 |-> b64]
NoValue == Value(0, FALSE)
NoLookup == [ok |-> FALSE, key |-> "", entry |-> -1]
NoOutcome == [out |-> "none", err |-> "none", key |-> ""]

\* No decrypt is running.
DecryptIdle ==
    /\ app_data = <<>>
    /\ dpc = "idle"
    /\ caller = "none"
    /\ key = ""
    /\ idx = 0
    /\ found = 0
    /\ looked = NoLookup
    /\ crypto_key = NoValue
    /\ salt = NoValue
    /\ outcome = NoOutcome

Init == StreamInit /\ CodecIdle /\ DecryptIdle

\* ---- connect() (lib.rs:161-182)
\* A retry timeout that doubles without the ceiling.
NextRetryTimeoutUncapped(t) == t * 2

\* lib.rs:180
NextRetryTimeout(t) == Min(connect_retry_timeout_max, t * 2)

\* connect() giving up after a failed attempt.
AfterFailedAttemptGiveUp == "done"

\* lib.rs:164-174 and 177-181: a failed try_connect is logged and the loop
\* goes (back) to the sleep.
AfterFailedAttempt == "sleep"

\* The Err arms of connect(): lib.rs:164-167 after the first attempt,
\* lib.rs:177-180 after a retry.
TryConnectFailedWith(op, arg) ==
    /\ retry_attempt < MaxRetry
    /\ pc' = AfterFailedAttempt
    /\ IF retry_attempt = 0
       THEN /\ retry_attempt' = 1
            /\ retry_timeout' = RETRY_TIMEOUT_BASE
       ELSE /\ retry_attempt' = retry_attempt + 1
            /\ retry_timeout' = NextRetryTimeout(retry_timeout)
    /\ last' = Step(op, FALSE, arg)
    /\ UNCHANGED <<tc, android_id_ok, items, delays, earlier, held, accepted, prevData>>

\* A step of try_connect that failed on its own `?`.
TryConnectFailed(op) == TryConnectFailedWith(op, 0)

\* lib.rs:174, time::sleep(retry_timeout), then the try_connect of lib.rs:175
Sleep ==
    /\ pc = "sleep"
    /\ UNCHANGED <<codecVars, decryptVars>>
    /\ delays' = Append(delays, retry_timeout)
    /\ UNCHANGED earlier
    /\ pc' = "try_connect"
    /\ tc' = "check_in"
    /\ last' = Step("sleep", TRUE, 0)
    /\ UNCHANGED <<android_id_ok, persistent_ids, retry_attempt, retry_timeout,
                   request, items, held, accepted, prevData>>

\* ---- try_connect() (lib.rs:185-207), one action per fallible step
\* A step of try_connect that touches no client state: it succeeds and the
\* next step runs, or it fails and try_connect returns the error.
ExternalStep(op, next) ==
    /\ pc = "try_connect"
    /\ tc = op
    /\ UNCHANGED <<codecVars, decryptVars>>
    /\ \E ok \in BOOLEAN :
         IF ok
         THEN /\ tc' = next
              /\ last' = Step(op, TRUE, 0)
              /\ UNCHANGED <<pc, android_id_ok, retry_attempt, retry_timeout, items,
                             delays, earlier, held, accepted, prevData>>
         ELSE TryConnectFailed(op)
    /\ UNCHANGED <<persistent_ids, request>>

\* A check-in whose failure is ignored: the transport is opened all the same.
CheckInFailureIgnored ==
    /\ pc = "try_connect"
    /\ tc = "check_in"
    /\ UNCHANGED <<codecVars, decryptVars>>
    /\ \E ok \in BOOLEAN :
         /\ tc' = "tcp_connect"
         /\ last' = Step("check_in", ok, 0)
    /\ UNCHANGED <<pc, android_id_ok, persistent_ids, retry_attempt, retry_timeout,
                   request, items, delays, earlier, held, accepted, prevData>>

\* lib.rs:186
CheckIn == ExternalStep("check_in", "tcp_connect")
\* lib.rs:190
TcpConnect == ExternalStep("tcp_connect", "tls_handshake")
\* lib.rs:191-192
TlsHandshake == ExternalStep("tls_handshake", "write_version")
\* lib.rs:193
WriteVersion == ExternalStep("write_version", "write_tag")
\* lib.rs:196
WriteTag == ExternalStep("write_tag", "login_request")

\* lib.rs:263: received_persistent_id is std::mem::take(&mut self.persistent_ids),
\* which moves the ids into the request and leaves the collection empty.
login_request(ids) == [received |-> ids, left |-> <<>>]

\* lib.rs:197 with lib.rs:241-266: the request is built unless the android id
\* does not parse as i64 (lib.rs:243-245), which fails before anything is taken.
LoginRequest ==
    /\ pc = "try_connect"
    /\ tc = "login_request"
    /\ UNCHANGED <<codecVars, decryptVars>>
    /\ IF android_id_ok
       THEN /\ request' = login_request(persistent_ids).received
            /\ persistent_ids' = login_request(persistent_ids).left
            /\ tc' = "write_login"
            /\ last' = Step("login_request", TRUE, 0)
            /\ UNCHANGED <<pc, android_id_ok, retry_attempt, retry_timeout, items,
                           delays, earlier, held, accepted, prevData>>
       ELSE /\ TryConnectFailed("login_request")
            /\ UNCHANGED <<persistent_ids, request>>

\* lib.rs:199
WriteLogin == ExternalStep("write_login", "read_version")

\* Backoff state that outlives the connect() call, as a field of Client would.
KeptAfterReturn(v) == v

\* lib.rs:166-167: retry_attempt and retry_timeout are locals of connect(),
\* gone when it returns; the next call has none until its first failure.
LocalAfterReturn(v) == 0

\* A version check that rejects every version but the expected one.
VersionAcceptedStrict(mcs_version) == mcs_version = MCS_VERSION

\* lib.rs:202-206: a version other than MCS_VERSION is logged as a warning and
\* try_connect returns Ok(stream) all the same.
VersionAccepted(mcs_version) == TRUE

\* lib.rs:201-206: any version byte is accepted (a mismatch is only logged);
\* connect() returns the stream and its locals are gone.
ReadVersion ==
    /\ pc = "try_connect"
    /\ tc = "read_version"
    /\ UNCHANGED <<codecVars, decryptVars>>
    /\ \E ok \in BOOLEAN :
         IF ok
         THEN \E mcs_version \in {MCS_VERSION - 1, MCS_VERSION} :
              IF VersionAccepted(mcs_version)
              THEN /\ pc' = "read"
                   /\ retry_attempt' = LocalAfterReturn(retry_attempt)
                   /\ retry_timeout' = LocalAfterReturn(retry_timeout)
                   /\ prevData' = NoData
                   /\ last' = Step("read_version", TRUE, mcs_version)
                   /\ UNCHANGED <<tc, android_id_ok, items, delays, earlier, held, accepted>>
              ELSE TryConnectFailedWith("read_version", mcs_version)
         ELSE TryConnectFailed("read_version")
    /\ UNCHANGED <<persistent_ids, request>>

\* ---- the inner loop of notifications() (lib.rs:133-156)
\* A membership test that never finds the id.
ContainsNever(s, x) == FALSE

\* lib.rs:140, self.persistent_ids.contains(&persistent_id)
AlreadySeen(s, x) == Contains(s, x)

\* A login-response that leaves the collection as it is.
OnLoginResponseKeep(ids) == ids

\* lib.rs:146, self.persistent_ids = Vec::new()
OnLoginResponse(ids) == <<>>

\* A decrypt error that is skipped: the loop reads the next frame.
AfterDecryptSkipErrors(out) ==
    CASE out = "plaintext" -> "read"
      [] out = "error" -> "read"
      [] out = "panic" -> "panicked"

\* lib.rs:142, `yield Ok(self.decrypt(message)?)` inside stream!: on Err the `?`
\* yields Err(e.into()) and returns from the generator, which ends the stream;
\* on Ok the plaintext is yielded and the loop goes on; a panic unwinds the task.
AfterDecrypt(out) ==
    CASE out = "plaintext" -> "read"
      [] out = "error" -> "done"
      [] out = "panic" -> "panicked"

\* A read error that ends the stream.
AfterReadErrorEnd == "done"

\* lib.rs:151-154 then 130-131: `break` leaves the inner loop and the outer
\* loop calls connect() again, whose first statement is try_connect().
AfterReadError == "try_connect"

\* lib.rs:134-137: the frames for which read_message returns Ok(message) with
\* a message of one of the kinds
FramesOf(kinds) == {f \in Frames : read_message(f).ok /\ read_message(f).kind \in kinds}
DataFrames == FramesOf({"DataMessageStanza"})
LoginResponseFrames == FramesOf({"LoginResponse"})
OtherFrames == FramesOf(MessageKinds \ {"DataMessageStanza", "LoginResponse"})
\* lib.rs:151: the frames for which read_message returns Err
ErrorFrames == {f \in Frames : ~read_message(f).ok}

\* An id that is pushed only once the stanza has decrypted.
PushAfterDecrypt(ids, id, out) == IF out = "plaintext" THEN Append(ids, id) ELSE ids

\* lib.rs:141, self.persistent_ids.push(..), which runs before the decrypt of
\* lib.rs:142 and so whatever its outcome
PushBeforeDecrypt(ids, id, out) == Append(ids, id)

\* lib.rs:138-143, a data stanza whose id is not in the collection: the id is
\* pushed, the stanza decrypted, and the outcome yielded.
DataMessageNew ==
    \E f \in DataFrames, id \in Ids, fault \in StanzaFaults :
        /\ pc = "read"
        /\ UNCHANGED <<codecVars, decryptVars>>
        /\ ~AlreadySeen(persistent_ids, id)
        /\ Len(items) < MaxItems
        /\ LET d == decrypt(fault) IN
             /\ persistent_ids' = PushBeforeDecrypt(persistent_ids, id, d.out)
             /\ items' = CASE d.out = "plaintext" -> Append(items, Item("Ok", id, "none"))
                           [] d.out = "error" -> Append(items, Item("Err", id, d.err))
                           [] d.out = "panic" -> items
             /\ pc' = AfterDecrypt(d.out)
             /\ last' = Step(IF d.out = "plaintext" THEN "data"
                             ELSE IF d.out = "error" THEN "decrypt_error"
                             ELSE "decrypt_panic", TRUE, id)
        /\ accepted' = accepted \cup {id}
        /\ prevData' = [id |-> id, fresh |-> TRUE, n |-> Len(items), dropped |-> FALSE]
        /\ held' = {}
        /\ UNCHANGED <<tc, android_id_ok, retry_attempt, retry_timeout, request, delays, earlier>>

\* lib.rs:138-144, a data stanza whose id is in the collection: nothing is done.
DataMessageDuplicate ==
    \E f \in DataFrames, id \in Ids :
        /\ pc = "read"
        /\ UNCHANGED <<codecVars, decryptVars>>
        /\ AlreadySeen(persistent_ids, id)
        /\ last' = Step("data_dup", TRUE, id)
        /\ prevData' = IF prevData.id = id
                       THEN [prevData EXCEPT !.dropped = TRUE]
                       ELSE [id |-> id, fresh |-> FALSE, n |-> Len(items),
                             dropped |-> FALSE]
        /\ held' = {}
        /\ UNCHANGED <<pc, tc, android_id_ok, persistent_ids, retry_attempt,
                       retry_timeout, request, items, delays, earlier, accepted>>

\* lib.rs:145-147
LoginResponse ==
    \E f \in LoginResponseFrames :
        /\ pc = "read"
        /\ UNCHANGED <<codecVars, decryptVars>>
        /\ persistent_ids' = OnLoginResponse(persistent_ids)
        /\ accepted' = {}
        /\ prevData' = NoData
        /\ last' = Step("login_response", TRUE, Len(persistent_ids))
        /\ held' = {}
        /\ UNCHANGED <<pc, tc, android_id_ok, retry_attempt, retry_timeout, request,
                       items, delays, earlier>>

\* A loop that a close message ends.
AfterOtherMessageCloseEnds(kind) == IF kind = "Close" THEN "done" ELSE "read"

\* lib.rs:148, `_ => ()`: the inner loop goes on to its next read_message
AfterOtherMessage(kind) == "read"

\* lib.rs:148, every other kind of message
OtherMessage ==
    \E f \in OtherFrames :
        /\ pc = "read"
        /\ UNCHANGED <<codecVars, decryptVars>>
        /\ pc' = AfterOtherMessage(read_message(f).kind)
        /\ last' = Step(read_message(f).kind, TRUE, 0)
        /\ held' = {}
        /\ UNCHANGED <<tc, android_id_ok, persistent_ids, retry_attempt,
                       retry_timeout, request, items, delays, earlier, accepted, prevData>>

\* lib.rs:151-154: read_message returned Err; the error is logged and the
\* inner loop left, so the outer loop calls connect() (lib.rs:131).
ReadError ==
    \E f \in ErrorFrames :
        /\ pc = "read"
        /\ UNCHANGED <<codecVars, decryptVars>>
        /\ pc' = AfterReadError
        /\ tc' = "check_in"
        /\ held' = Range(persistent_ids)
        /\ delays' = <<>>
        /\ earlier' = Contains(delays, connect_retry_timeout_max)
        /\ prevData' = NoData
        /\ last' = Step(read_message(f).kind, FALSE, read_message(f).tag)
        /\ UNCHANGED <<android_id_ok, persistent_ids, retry_attempt, retry_timeout,
                       request, items, accepted>>

Next ==
    \/ CheckIn \/ TcpConnect \/ TlsHandshake \/ WriteVersion \/ WriteTag
    \/ LoginRequest \/ WriteLogin \/ ReadVersion \/ Sleep
    \/ DataMessageNew \/ DataMessageDuplicate \/ LoginResponse \/ OtherMessage
    \/ ReadError

Spec == Init /\ [][Next]_vars

\* ------------------------------------------------------- the frame codec
RECURSIVE BitOr(_, _)
\* the `|` of two unsigned integers (mcs.rs:102)
BitOr(a, b) ==
    IF a = 0 THEN b
    ELSE IF b = 0 THEN a
    ELSE (IF a % 2 = 1 \/ b % 2 = 1 THEN 1 ELSE 0) + 2 * BitOr(a \div 2, b \div 2)

\* `(x as u32) << shift` (mcs.rs:102).  x is one byte and shift at most 21, so
\* no bit is shifted past bit 31 of the u32.
Shl32(x, s) == x * 2^s

\* The group added without masking off the continuation bit.
vlq_accumulate_unmasked(v, next, s) == BitOr(v, Shl32(next, s))

\* mcs.rs:102, value |= ((next & 0b01111111) as u32) << shift
vlq_accumulate(v, next, s) == BitOr(v, Shl32(next % 128, s))

\* mcs.rs:103, next & 0b10000000 == 0
LastGroup(next) == (next \div 128) % 2 = 0

\* read_i8 (mcs.rs:116): the byte as a two's complement i8
AsI8(b) == IF b >= 128 THEN b - 256 ELSE b

RECURSIVE encode_varint(_)
\* The length prefix written by encode_length_delimited_to_vec (lib.rs:197):
\* base-128 groups, least significant first, the high bit set on every byte
\* but the last.
encode_varint(v) ==
    IF v < 128 THEN <<v>> ELSE <<(v % 128) + 128>> \o encode_varint(v \div 128)

\* The values whose encodings the byte source is given: every small value and
\* the values around each group boundary, up to 2^31 - 1.
VlqValues ==
    (0..MaxVlqSmall)
    \cup {2^7 - 1, 2^7, 2^7 + 1, 255, 256, 300, 2^14 - 1, 2^14, 2^14 + 1, 65535,
          2^21 - 1, 2^21, 2^21 + 1, 123456789, 2^28 - 2, 2^28 - 1, 2^28,
          2^28 + 1, 2^30, 2^30 + (2^30 - 1)}

\* Raw length bytes, including encodings that are not the shortest and
\* encodings that stop short.
RawBytes == {0, 1, 127, 128, 255}
RawLengths == UNION {[1..n -> RawBytes] : n \in 0..(VLQ_MAX_GROUPS + 1)}

Zeros(n) == [i \in 1..n |-> 0]

\* The byte sources read_message is run on.
CodecInit ==
    /\ \/ \E t \in 0..255, n \in 0..MaxAvail, avail \in 0..MaxAvail :
            /\ source = <<t>> \o encode_varint(n) \o Zeros(avail)
            /\ enc_value = n
       \/ \E v \in VlqValues, avail \in {0, MaxAvail} :
            /\ source = <<8>> \o encode_varint(v) \o Zeros(avail)
            /\ enc_value = v
       \/ \E raw \in RawLengths, avail \in {0, 1} :
            /\ source = <<8>> \o raw \o Zeros(avail)
            /\ enc_value = -1
       \/ /\ source = <<>>
          /\ enc_value = -1
    /\ body_ok \in BOOLEAN
    /\ pos = 0
    /\ cpc = "tag"
    /\ tag = 0
    /\ shift = 0
    /\ value = 0
    /\ group = 0
    /\ size = -1
    /\ result = Ok("none", 0)
    /\ rest = 0
    /\ frames = <<>>
    /\ returned = <<>>

StreamIdle ==
    /\ pc = "idle"
    /\ tc = "check_in"
    /\ android_id_ok = TRUE
    /\ persistent_ids = <<>>
    /\ retry_attempt = 0
    /\ retry_timeout = 0
    /\ request = <<>>
    /\ items = <<>>
    /\ delays = <<>>
    /\ earlier = FALSE
    /\ held = {}
    /\ accepted = {}
    /\ prevData = NoData
    /\ last = Step("new", TRUE, 0)

\* a read of one byte or of `n` bytes that meets the end of the source
Eof(n) == (Len(source) + rest) - pos < n

\* The byte at position i of the source; the bytes not spelled out are zero.
ByteAt(i) == IF i <= Len(source) THEN source[i] ELSE 0

\* mcs.rs:116, let tag = self.read_i8().await?
ReadTag ==
    /\ cpc = "tag"
    /\ IF Eof(1)
       THEN /\ result' = Err("TokioIo", 0)
            /\ cpc' = "ret"
            /\ UNCHANGED <<pos, tag>>
       ELSE /\ tag' = AsI8(ByteAt(pos + 1))
            /\ pos' = pos + 1
            /\ cpc' = "vlq"
            /\ UNCHANGED result
    /\ UNCHANGED <<source, shift, value, group, size, body_ok, enc_value>>
    /\ UNCHANGED <<rest, frames, returned>>
    /\ UNCHANGED <<streamVars, decryptVars>>

\* mcs.rs:100-107, one iteration of the loop of read_vlq_u32
ReadVlqGroup ==
    /\ cpc = "vlq"
    /\ group < VLQ_MAX_GROUPS
    /\ IF Eof(1)
       THEN /\ result' = Err("TokioIo", 0)
            /\ cpc' = "ret"
            /\ UNCHANGED <<pos, shift, value, group, size>>
       ELSE LET next == ByteAt(pos + 1) IN
            /\ pos' = pos + 1
            /\ value' = vlq_accumulate(value, next, shift)
            /\ IF LastGroup(next)
               THEN /\ size' = value'
                    /\ cpc' = "body"
                    /\ UNCHANGED <<shift, group>>
               ELSE /\ shift' = shift + 7
                    /\ group' = group + 1
                    /\ UNCHANGED <<size, cpc>>
            /\ UNCHANGED result
    /\ UNCHANGED <<source, tag, body_ok, enc_value>>
    /\ UNCHANGED <<rest, frames, returned>>
    /\ UNCHANGED <<streamVars, decryptVars>>

\* mcs.rs:109, the loop ran four times and every byte had the continuation bit
VlqTooLarge ==
    /\ cpc = "vlq"
    /\ group = VLQ_MAX_GROUPS
    /\ result' = Err("VlqTooLarge", 0)
    /\ cpc' = "ret"
    /\ UNCHANGED <<source, pos, tag, shift, value, group, size, body_ok, enc_value>>
    /\ UNCHANGED <<rest, frames, returned>>
    /\ UNCHANGED <<streamVars, decryptVars>>

\* A read_exact that takes one byte more than it was asked for.
AfterBodyOneMore(p, n) == p + n + 1

\* mcs.rs:118-120: read_exact fills a buffer of exactly `size` bytes
AfterBody(p, n) == p + n

\* mcs.rs:118-120, read_exact of `size` bytes
ReadBody ==
    /\ cpc = "body"
    /\ IF Eof(size)
       THEN /\ result' = Err("TokioIo", 0)
            /\ cpc' = "ret"
            /\ pos' = Len(source) + rest
       ELSE /\ pos' = AfterBody(pos, size)
            /\ cpc' = "decode"
            /\ UNCHANGED result
    /\ UNCHANGED <<source, tag, shift, value, group, size, body_ok, enc_value>>
    /\ UNCHANGED <<rest, frames, returned>>
    /\ UNCHANGED <<streamVars, decryptVars>>

\* ---- the body of a login request, as prost writes and reads it
\* A string field: key (field number, wire type 2), length, bytes.
EncodeString(field, str) == <<field * 8 + 2, Len(str)>> \o str

\* A bool field: key (field number, wire type 0), one byte.
EncodeBool(field, b) == <<field * 8, b>>

RECURSIVE EncodeRepeated(_, _)
EncodeRepeated(field, list) ==
    IF list = <<>> THEN <<>>
    ELSE EncodeString(field, Head(list)) \o EncodeRepeated(field, Tail(list))

\* LoginRequest::encode: the fields in the order of their numbers
LoginRequest_encode(m) ==
    EncodeString(1, m.id) \o EncodeRepeated(10, m.received_persistent_id)
    \o EncodeBool(12, m.adaptive_heartbeat) \o EncodeBool(14, m.use_rmq2)

\* One decoded field merged into the message.
Merge(m, field, v) ==
    CASE field = 1 -> [m EXCEPT !.id = v]
      [] field = 10 ->
           [m EXCEPT !.received_persistent_id = Append(m.received_persistent_id, v)]
      [] field = 12 -> [m EXCEPT !.adaptive_heartbeat = v]
      [] field = 14 -> [m EXCEPT !.use_rmq2 = v]
      [] OTHER -> m

RECURSIVE DecodeFields(_, _, _)
\* LoginRequest::decode: key by key until the buffer is empty; a key with
\* field number 0, a wire type the model does not write, or a field that
\* runs past the buffer is a decode error.
DecodeFields(data, i, m) ==
    IF i > Len(data) THEN [ok |-> TRUE, msg |-> m]
    ELSE LET field == data[i] \div 8
             wire == data[i] % 8
         IN  IF field = 0 \/ wire \notin {0, 2} \/ i + 1 > Len(data)
             THEN [ok |-> FALSE, msg |-> NoMessage]
             ELSE IF wire = 0
                  THEN DecodeFields(data, i + 2, Merge(m, field, data[i + 1]))
                  ELSE IF i + 1 + data[i + 1] > Len(data)
                       THEN [ok |-> FALSE, msg |-> NoMessage]
                       ELSE DecodeFields(data, i + 2 + data[i + 1],
                                Merge(m, field,
                                      SubSeq(data, i + 2, i + 1 + data[i + 1])))

LoginRequest_decode(data) == DecodeFields(data, 1, DefaultLoginRequest)

\* The body just read is spelled out in the source and is a login request's.
BodySpelled == frames # <<>> /\ tag = LoginRequest_TAG /\ pos <= Len(source)

\* mcs.rs:122, Ok(Message::decode(data.as_slice(), tag)?)
Decode ==
    /\ cpc = "decode"
    /\ LET data == SubSeq(source, pos - size + 1, pos)
           bodyOk == IF BodySpelled THEN LoginRequest_decode(data).ok ELSE body_ok
           r == Message_decode(tag, bodyOk)
       IN  /\ result' = r
           /\ returned' =
                IF r.ok
                THEN Append(returned,
                            [result |-> r, pos |-> pos,
                             msg |-> IF BodySpelled THEN LoginRequest_decode(data).msg
                                     ELSE NoMessage])
                ELSE returned
    /\ cpc' = "ret"
    /\ UNCHANGED <<source, pos, tag, shift, value, group, size, body_ok, enc_value>>
    /\ UNCHANGED <<rest, frames>>
    /\ UNCHANGED <<streamVars, decryptVars>>

InitCodec == StreamIdle /\ CodecInit /\ DecryptIdle

NextCodec == ReadTag \/ ReadVlqGroup \/ VlqTooLarge \/ ReadBody \/ Decode

SpecCodec == InitCodec /\ [][NextCodec]_vars

\* ---- sources written frame by frame
\* An encoder that leaves the length out (encode_to_vec).
FrameHeaderNoLength(t, n) == <<t % 256>>

\* lib.rs:196-197: write_i8(tag), then the length prefix that
\* encode_length_delimited_to_vec puts before the body
FrameHeader(t, n) == <<t % 256>> \o encode_varint(n)

\* A frame: its tag, the length of its body, the body bytes the source
\* spells out, and the login request it was encoded from, if any.
Frame(t, n, body, msg) == [tag |-> t, len |-> n, body |-> body, msg |-> msg]

\* A received frame of some tag with a body of n bytes.
PlainFrame(t, n) == Frame(t, n, Zeros(n), NoMessage)

\* The persistent-id i as the client holds it, a string of i characters.
IdString(i) == [j \in 1..i |-> 48 + i]

\* lib.rs:248-265, the LoginRequest built from the ids held
BuildLoginRequest(ids) ==
    LoginRequestMsg(<<99>>, [i \in 1..Len(ids) |-> IdString(ids[i])], 0, 1)

\* lib.rs:196-199, the frame try_connect writes for a login request
LoginFrame(m) ==
    Frame(LoginRequest_TAG, Len(LoginRequest_encode(m)), LoginRequest_encode(m), m)

\* A login frame whose body is too long to spell out: only its length is kept.
LongLoginFrame(n) == Frame(LoginRequest_TAG, n, <<>>, NoMessage)

FrameBytes(f) == FrameHeader(f.tag, f.len) \o f.body

RECURSIVE Concat(_)
Concat(fs) == IF fs = <<>> THEN <<>> ELSE FrameBytes(Head(fs)) \o Concat(Tail(fs))

\* Lists of ids a client may hold when it builds its login request.
IdLists == UNION {[1..n -> Ids] : n \in 0..MaxIds}

\* Body lengths of one, two and two groups of VLQ.
PlainLens == {0, 1, 130}
PlainTags == {0, 8, 99}
PlainFrames == {PlainFrame(t, n) : t \in PlainTags, n \in PlainLens}

FrameSeqs ==
    UNION {[1..n -> PlainFrames \cup {LoginFrame(BuildLoginRequest(<<1>>))}] :
              n \in 0..MaxFrames}

\* Body lengths at the group boundaries of the length prefix.
LongLens == {2^21 - 1, 2^21, 2^28 - 1, 2^28, 2^30}

\* The sources: frames written one after the other; the login frame of every
\* id list, alone or before another frame; a login frame with a long body.
FramesInit ==
    /\ \/ /\ frames \in FrameSeqs
          /\ rest = 0
          /\ body_ok \in BOOLEAN
       \/ /\ \E ids \in IdLists, tail \in {<<>>, <<PlainFrame(8, 1)>>} :
                frames = <<LoginFrame(BuildLoginRequest(ids))>> \o tail
          /\ rest = 0
          /\ body_ok \in BOOLEAN
       \/ /\ \E n \in LongLens :
                /\ frames = <<LongLoginFrame(n)>>
                /\ rest = n
          \* the body is what LoginRequest::encode wrote, which decodes
          /\ body_ok = TRUE
    /\ source = Concat(frames)
    /\ enc_value = -1
    /\ pos = 0
    /\ cpc = "tag"
    /\ tag = 0
    /\ shift = 0
    /\ value = 0
    /\ group = 0
    /\ size = -1
    /\ result = Ok("none", 0)
    /\ returned = <<>>

\* lib.rs:135-136, the inner loop calls read_message again after an Ok
NextCall ==
    /\ cpc = "ret"
    /\ result.ok
    /\ cpc' = "tag"
    /\ tag' = 0
    /\ shift' = 0
    /\ value' = 0
    /\ group' = 0
    /\ size' = -1
    /\ UNCHANGED <<source, pos, body_ok, enc_value, result, rest, frames, returned>>
    /\ UNCHANGED <<streamVars, decryptVars>>

InitFrames == StreamIdle /\ FramesInit /\ DecryptIdle

NextFrames ==
    ReadTag \/ ReadVlqGroup \/ VlqTooLarge \/ ReadBody \/ Decode \/ NextCall

SpecFrames == InitFrames /\ [][NextFrames]_vars

\* ------------------------------------------- decrypt and the header lookup
\* The keys an app-data entry may carry: the two decrypt asks for, and one
\* it never asks for.
Keys == {"crypo-key", "encryption", "crypto-key"}

\* Header values one byte short of each prefix length and exactly as long,
\* and one whose remainder is not base64.
Values == {Value(DH_PREFIX_LEN - 1, TRUE), Value(DH_PREFIX_LEN, TRUE),
           Value(SALT_PREFIX_LEN - 1, TRUE), Value(SALT_PREFIX_LEN, TRUE),
           Value(SALT_PREFIX_LEN + 1, FALSE)}

Entries == [key : Keys, value : Values]

Stanzas == UNION {[1..n -> Entries] : n \in 0..MaxEntries}

\* A MissingDataError that does not keep the key.
MissingDataError_anonymous(k) == [ok |-> FALSE, key |-> "", entry |-> 0]

\* mcs.rs:84-89, MissingDataError::new(key)
MissingDataError_new(k) == [ok |-> FALSE, key |-> k, entry |-> 0]

\* A lookup in which a later entry replaces an earlier one.
KeepLast(res, i) == i

\* mcs.rs:63-69: the entry is stored only while `result` is None
KeepFirst(res, i) == IF res = 0 THEN i ELSE res

\* mcs.rs:72, result.ok_or(MissingDataError::new(key))
ok_or(res, k) ==
    IF res = 0 THEN MissingDataError_new(k) ELSE [ok |-> TRUE, key |-> k, entry |-> res]

\* The inputs: a stanza handed to decrypt, or to app_data alone with some key.
DecryptInit ==
    /\ app_data \in Stanzas
    /\ \/ /\ dpc = "decrypt"
          /\ caller = "none"
          /\ key = ""
          /\ idx = 0
       \/ /\ dpc = "loop"
          /\ caller = "lookup"
          /\ key \in Keys
          /\ idx = 1
    /\ found = 0
    /\ looked = NoLookup
    /\ crypto_key = NoValue
    /\ salt = NoValue
    /\ outcome = NoOutcome

\* The call app_data(k) made by decrypt: mcs.rs:57-58
Call(by, k) ==
    /\ dpc' = "loop"
    /\ caller' = by
    /\ key' = k
    /\ idx' = 1
    /\ found' = 0

\* lib.rs:210, msg.app_data("crypo-key")
LookupCryptoKey ==
    /\ dpc = "decrypt"
    /\ Call("crypto_key", "crypo-key")
    /\ UNCHANGED <<app_data, looked, crypto_key, salt, outcome>>
    /\ UNCHANGED <<streamVars, codecVars>>

\* mcs.rs:60-70, one iteration of the loop over the entries
AppDataLoop ==
    /\ dpc = "loop"
    /\ idx <= Len(app_data)
    /\ IF app_data[idx].key = key
       THEN /\ found' = KeepFirst(found, idx)
            /\ IF found # 0
               THEN /\ dpc' = "ok_or"
                    /\ UNCHANGED idx
               ELSE /\ idx' = idx + 1
                    /\ UNCHANGED dpc
       ELSE /\ idx' = idx + 1
            /\ UNCHANGED <<found, dpc>>
    /\ UNCHANGED <<app_data, caller, key, looked, crypto_key, salt, outcome>>
    /\ UNCHANGED <<streamVars, codecVars>>

\* mcs.rs:60, the list is exhausted
AppDataLoopEnd ==
    /\ dpc = "loop"
    /\ idx > Len(app_data)
    /\ dpc' = "ok_or"
    /\ UNCHANGED <<app_data, caller, key, idx, found, looked, crypto_key, salt, outcome>>
    /\ UNCHANGED <<streamVars, codecVars>>

\* mcs.rs:72, app_data returns; then the `?` of lib.rs:210 / lib.rs:211
AppDataReturn ==
    /\ dpc = "ok_or"
    /\ looked' = ok_or(found, key)
    /\ IF caller = "lookup"
       THEN /\ dpc' = "ret"
            /\ UNCHANGED outcome
       ELSE IF ok_or(found, key).ok
            THEN /\ dpc' = "slice"
                 /\ UNCHANGED outcome
            ELSE /\ dpc' = "ret"
                 /\ outcome' = [out |-> "error", err |-> "MissingData",
                                key |-> ok_or(found, key).key]
    /\ UNCHANGED <<app_data, caller, key, idx, found, crypto_key, salt>>
    /\ UNCHANGED <<streamVars, codecVars>>

\* lib.rs:210-211, `value[n..]`: the index panics when the value is shorter
\* than n bytes
Slice(v, n) ==
    IF v.len < n THEN [ok |-> FALSE, value |-> NoValue]
    ELSE [ok |-> TRUE, value |-> Value(v.len - n, v.b64)]

\* lib.rs:210, `.value[3..]`, then lib.rs:211, msg.app_data("encryption")
SliceCryptoKey ==
    /\ dpc = "slice"
    /\ caller = "crypto_key"
    /\ LET r == Slice(app_data[looked.entry].value, DH_PREFIX_LEN) IN
         IF r.ok
         THEN /\ crypto_key' = r.value
              /\ Call("salt", "encryption")
              /\ UNCHANGED outcome
         ELSE /\ outcome' = [out |-> "panic", err |-> "none", key |-> key]
              /\ dpc' = "ret"
              /\ UNCHANGED <<crypto_key, caller, key, idx, found>>
    /\ UNCHANGED <<app_data, looked, salt>>
    /\ UNCHANGED <<streamVars, codecVars>>

\* lib.rs:211, `.value[5..]`
SliceSalt ==
    /\ dpc = "slice"
    /\ caller = "salt"
    /\ LET r == Slice(app_data[looked.entry].value, SALT_PREFIX_LEN) IN
         IF r.ok
         THEN /\ salt' = r.value
              /\ dpc' = "base64_dh"
              /\ UNCHANGED outcome
         ELSE /\ outcome' = [out |-> "panic", err |-> "none", key |-> key]
              /\ dpc' = "ret"
              /\ UNCHANGED salt
    /\ UNCHANGED <<app_data, caller, key, idx, found, looked, crypto_key>>
    /\ UNCHANGED <<streamVars, codecVars>>

\* lib.rs:214, BASE64_URL_SAFE.decode(crypto_key)?
Base64Dh ==
    /\ dpc = "base64_dh"
    /\ IF crypto_key.b64
       THEN /\ dpc' = "base64_salt"
            /\ UNCHANGED outcome
       ELSE /\ dpc' = "ret"
            /\ outcome' = [out |-> "error", err |-> "Base64Decode", key |-> ""]
    /\ UNCHANGED <<app_data, caller, key, idx, found, looked, crypto_key, salt>>
    /\ UNCHANGED <<streamVars, codecVars>>

\* lib.rs:217, BASE64_URL_SAFE.decode(salt)?
Base64Salt ==
    /\ dpc = "base64_salt"
    /\ IF salt.b64
       THEN /\ dpc' = "ece"
            /\ UNCHANGED outcome
       ELSE /\ dpc' = "ret"
            /\ outcome' = [out |-> "error", err |-> "Base64Decode", key |-> ""]
    /\ UNCHANGED <<app_data, caller, key, idx, found, looked, crypto_key, salt>>
    /\ UNCHANGED <<streamVars, codecVars>>

\* lib.rs:219-224, AesGcmEncryptedBlock::new(..)? and decrypt_aesgcm(..)?:
\* whether the block is well formed and authenticates is the input's
EceDecrypt ==
    /\ dpc = "ece"
    /\ \E ok \in BOOLEAN :
         outcome' = IF ok THEN [out |-> "plaintext", err |-> "none", key |-> ""]
                    ELSE [out |-> "error", err |-> "Ece", key |-> ""]
    /\ dpc' = "ret"
    /\ UNCHANGED <<app_data, caller, key, idx, found, looked, crypto_key, salt>>
    /\ UNCHANGED <<streamVars, codecVars>>

InitDecrypt == StreamIdle /\ CodecIdle /\ DecryptInit

NextDecrypt ==
    \/ LookupCryptoKey \/ AppDataLoop \/ AppDataLoopEnd \/ AppDataReturn
    \/ SliceCryptoKey \/ SliceSalt \/ Base64Dh \/ Base64Salt \/ EceDecrypt

SpecDecrypt == InitDecrypt /\ [][NextDecrypt]_vars

\* ======================================================== claims, under Spec
DataOps == {"data", "data_dup", "decrypt_error", "decrypt_panic"}

\* The step just taken dispatched a data stanza carrying id.
DataDispatched(id) == pc = "read" /\ last'.op \in DataOps /\ last'.arg = id

C2_Reset == last.op = "login_response" => persistent_ids = <<>>

\* C2 witness: a login-response was dispatched while the collection was full.
C2_Witness == last.op = "login_response" /\ last.arg = MaxIds /\ persistent_ids = <<>>

\* C3: a decrypt error yields one error item for the failing stanza and ends
\* the stream: from then on no step is taken (no connect, no read, no item).
C3_DecryptErrorEnds ==
    [][/\ pc # "done"
       /\ (pc = "read" /\ last'.op = "decrypt_error") =>
             /\ pc' = "done"
             /\ Len(items') = Len(items) + 1
             /\ items'[Len(items')].kind = "Err"
             /\ items'[Len(items')].id = last'.arg
             /\ SubSeq(items', 1, Len(items)) = items
       /\ pc' = "done" => last'.op = "decrypt_error"
      ]_vars

\* C3 witness: the stream has ended on a decrypt error, after an earlier item.
C3_Witness ==
    /\ pc = "done"
    /\ last.op = "decrypt_error"
    /\ Len(items) = 2
    /\ items[1].kind = "Ok"
    /\ items[2].kind = "Err"

ReadErrorKinds == {"TokioIo", "VlqTooLarge", "UnknownTag", "ProstDecode"}

\* C4: a frame read or decode error yields no item and does not end the
\* stream; it changes nothing of the client and the stream's next step is the
\* first step of the first try_connect of a new connect() call.
C4_ReadErrorReconnects ==
    [][(pc = "read" /\ ~last'.ok) =>
          /\ last'.op \in ReadErrorKinds
          /\ items' = items
          /\ persistent_ids' = persistent_ids
          /\ pc' = "try_connect"
          /\ tc' = "check_in"
          /\ retry_attempt' = 0
          /\ delays' = <<>>
      ]_vars

\* C4 witness: an unknown tag has just sent the stream back to connect().
C4_Witness ==
    /\ last = Step("UnknownTag", FALSE, 99)
    /\ pc = "try_connect"
    /\ tc = "check_in"
    /\ Len(items) = 1
    /\ persistent_ids # <<>>

\* C5: every id held when a read error forced a reconnect is in the
\* received-persistent-id list of the login request of the attempt that next
\* succeeds, however many attempts failed in between.
C5_IdsRetainedAcrossReconnect ==
    (pc = "read" /\ last.op = "read_version") => held \subseteq Range(request)

\* C6: no step but the dispatch of a login-response removes an id from the
\* collection, and the collection always holds the ids accepted since the last
\* login-response.
C6_ClearedOnlyOnLoginResponse ==
    [][/\ (\E x \in Range(persistent_ids) : x \notin Range(persistent_ids')) =>
             (pc = "read" /\ last'.op = "login_response")
       /\ Range(persistent_ids') = accepted'
      ]_vars

\* C7: connect() has no failure exit: a failed try_connect leads to the sleep,
\* the sleep to another try_connect from its first step, and connect() returns
\* (the stream starts reading) exactly when a try_connect ran to its end.
C7_ConnectNeverFails ==
    [][/\ pc = "try_connect" => pc' \in {"try_connect", "sleep", "read"}
       /\ (pc = "try_connect" /\ ~last'.ok) =>
             (pc' = "sleep" /\ retry_attempt' = retry_attempt + 1)
       /\ pc = "sleep" =>
             /\ pc' = "try_connect"
             /\ tc' = "check_in"
             /\ delays' = Append(delays, retry_timeout)
       /\ (pc = "try_connect" /\ last'.ok) =>
             (pc' = "read" <=> tc = "read_version")
       /\ pc' = "read" => pc \in {"read", "try_connect"}
      ]_vars

\* C7 witness: connect() has returned a stream after two failed attempts.
C7_Witness ==
    /\ pc = "read"
    /\ last.op = "read_version"
    /\ Len(delays) = 2

\* C8: the first attempt of a connect() call is made without delay, and the
\* delay slept after the k-th failure in a row is min(80, 5 * 2^(k-1)) seconds.
C8_BackoffSchedule ==
    /\ \A k \in 1..Len(delays) :
          /\ delays[k] = Min(80, 5 * 2^(k - 1))
          /\ delays[k] <= 80
    /\ pc = "try_connect" => Len(delays) = retry_attempt
    /\ pc = "sleep" => Len(delays) = retry_attempt - 1
    /\ (pc = "try_connect" /\ retry_attempt = 0) => delays = <<>>

\* C8 witness: six failures in a row have been slept after, the last two at the ceiling.
C8_Witness ==
    /\ Len(delays) = 6
    /\ delays = <<5, 10, 20, 40, 80, 80>>

\* The steps of try_connect in the order of lib.rs:186-201.
TryConnectOrder == <<"check_in", "tcp_connect", "tls_handshake", "write_version",
                     "write_tag", "login_request", "write_login", "read_version">>

StepIndex(op) == CHOOSE i \in 1..Len(TryConnectOrder) : TryConnectOrder[i] = op

\* C14: every try_connect starts at the check-in and takes its steps in the
\* order check-in, transport connect, security handshake, version byte, login
\* request (tag, body built, frame written), version read; the step that fails
\* is the cause reported and no later step of that attempt is taken.
C14_TryConnectOrder ==
    [][/\ pc = "try_connect" =>
             /\ last'.op = tc
             /\ (last'.ok /\ tc # "read_version") =>
                   /\ pc' = "try_connect"
                   /\ tc' = TryConnectOrder[StepIndex(tc) + 1]
             /\ (last'.ok /\ tc = "read_version") => pc' = "read"
             /\ ~last'.ok => pc' = "sleep"
       /\ (pc # "try_connect" /\ pc' = "try_connect") => tc' = "check_in"
       /\ pc = "sleep" => last'.op = "sleep"
      ]_vars

\* C14 witness: a retry has failed at the security handshake and is about to sleep.
C14_Witness ==
    /\ pc = "sleep"
    /\ last = Step("tls_handshake", FALSE, 0)
    /\ retry_attempt = 2

FrameOps == MessageKinds \cup ReadErrorKinds \cup DataOps \cup {"login_response"}

\* C15: a version byte other than 41 does not abort the connection: the
\* version read fails only when no byte could be read (argument 0), try_connect
\* succeeds on any byte and the stream's next step reads a frame.
C15_VersionMismatchAccepted ==
    [][/\ (pc = "try_connect" /\ tc = "read_version") =>
             /\ last'.op = "read_version"
             /\ last'.ok => pc' = "read"
             /\ ~last'.ok => last'.arg = 0
       /\ (last.op = "read_version" /\ last.ok /\ last.arg # 41) =>
             /\ pc = "read"
             /\ last'.op \in FrameOps
      ]_vars

\* C15 witness: the relay answered version 40 and the stream is reading frames.
C15_Witness ==
    /\ last = Step("read_version", TRUE, 40)
    /\ pc = "read"

OtherKinds == {"HeartbeatPing", "HeartbeatAck", "Close", "IqStanza", "LoginRequest"}

\* C16: dispatching a heartbeat ping, heartbeat ack, close, iq stanza or
\* login-request message changes no client state and yields no item; the
\* connection is kept and the stream is at its next read.
C16_OtherMessagesIgnored ==
    [][(pc = "read" /\ last'.op \in OtherKinds) =>
          /\ last'.ok
          /\ pc' = "read"
          /\ UNCHANGED <<persistent_ids, items, tc, android_id_ok, retry_attempt,
                         retry_timeout, request>>
      ]_vars

\* C16 witness: a close message was dispatched with ids held and an item yielded.
C16_Witness ==
    /\ last = Step("Close", TRUE, 0)
    /\ pc = "read"
    /\ Len(persistent_ids) = 2
    /\ Len(items) = 2

\* C19: the persistent-id collection never holds the same id twice.
C19_NoDuplicateIds == Cardinality(Range(persistent_ids)) = Len(persistent_ids)

\* C19 witness: id 1 was accepted, the collection was emptied, id 1 was
\* accepted again and a third stanza with id 1 has just been dropped.
C19_Witness ==
    /\ persistent_ids = <<1>>
    /\ Len(items) = 2
    /\ items[1].id = 1
    /\ items[2].id = 1
    /\ last.op = "data_dup"

\* C20: the id of a new data stanza is in the collection when its item
\* (plaintext or decrypt error) is yielded, and it is still there once a
\* decrypt error has ended the stream.
C20_IdPushedBeforeDecrypt ==
    /\ last.op \in {"data", "decrypt_error"} =>
          /\ Len(items) > 0
          /\ items[Len(items)].id = last.arg
          /\ Len(persistent_ids) > 0
          /\ last.arg = persistent_ids[Len(persistent_ids)]
    /\ last.op = "decrypt_panic" => last.arg \in Range(persistent_ids)
    /\ pc = "done" =>
          /\ items[Len(items)].kind = "Err"
          /\ items[Len(items)].id \in Range(persistent_ids)

\* C20 witness: the stream has ended on a decrypt error for id 2, which is held.
C20_Witness ==
    /\ pc = "done"
    /\ items[Len(items)] = Item("Err", 2, "MissingData")
    /\ persistent_ids = <<1, 2>>

\* The steps of try_connect that wait on the check-in endpoint, the
\* transport, the TLS handshake or the socket (lib.rs:186-201).
ExternalSteps == {"check_in", "tcp_connect", "tls_handshake", "write_version",
                  "write_tag", "write_login", "read_version"}

\* C21: a try_connect fails only when one of its external steps fails, so an
\* attempt in which the check-in, the transport connect, the handshake and
\* every socket read and write succeed returns a connection, and connect()
\* returns once they all succeed.
C21_OnlyExternalFailures ==
    [][/\ (pc = "try_connect" /\ ~last'.ok) => last'.op \in ExternalSteps
       /\ (pc = "try_connect" /\ tc \notin ExternalSteps) => last'.ok
      ]_vars

\* C22: after a frame read or decode error the stream's next step is the
\* first step of a try_connect, with no sleep before it and no backoff state
\* left from the connect() call before; and the first delay any connect()
\* call sleeps is 5 seconds, whatever the call before had reached.
C22_BackoffLocalToConnect ==
    [][/\ (pc = "read" /\ last'.op \in ReadErrorKinds) =>
             /\ pc' = "try_connect"
             /\ tc' = "check_in"
             /\ retry_attempt' = 0
             /\ delays' = <<>>
       /\ last.op \in ReadErrorKinds => last'.op = "check_in"
       /\ (pc = "sleep" /\ delays = <<>>) => delays' = <<5>>
       /\ (pc = "try_connect" /\ delays = <<>> /\ ~last'.ok) =>
             (retry_attempt' = 1 /\ retry_timeout' = 5)
      ]_vars

\* C22 witness: the connect() call before had reached the 80-second ceiling,
\* a read error dropped its connection, and this call has slept 5 seconds
\* after its first failure.
C22_Witness ==
    /\ earlier
    /\ delays = <<5>>
    /\ pc = "try_connect"
    /\ last.op = "sleep"

\* =================================================== claims, under SpecCodec
\* The four bytes after the tag byte all carry the continuation bit.
FirstFourContinue ==
    /\ Len(source) >= 5
    /\ \A i \in 2..5 : source[i] >= 128

\* C9: decoding the encoding of a value below 2^28 gives the value back and
\* consumes exactly the encoded bytes; the read fails with "vlq value too
\* large" exactly when the first four length bytes all carry the continuation
\* bit, as in every five-group encoding.
C9_VlqRoundTrip ==
    /\ (enc_value >= 0 /\ enc_value < 2^28 /\ cpc \in {"body", "decode", "ret"}) =>
          size = enc_value
    /\ (enc_value >= 0 /\ cpc = "body") =>
          /\ enc_value < 2^28
          /\ pos = 1 + Len(encode_varint(enc_value))
    /\ (enc_value >= 2^28 /\ cpc = "ret") => result = Err("VlqTooLarge", 0)
    /\ cpc = "ret" => (result.kind = "VlqTooLarge" <=> FirstFourContinue)
    /\ result.kind = "VlqTooLarge" => pos = 5

\* C9 witness: the largest 28-bit value has been decoded from its four bytes.
C9_Witness ==
    /\ enc_value = 2^28 - 1
    /\ cpc = "body"
    /\ size = 268435455
    /\ pos = 5

TagTable ==
    [t \in {0, 1, 2, 3, 4, 7, 8} |->
        CASE t = 0 -> "HeartbeatPing" [] t = 1 -> "HeartbeatAck"
          [] t = 2 -> "LoginRequest"  [] t = 3 -> "LoginResponse"
          [] t = 4 -> "Close"         [] t = 7 -> "IqStanza"
          [] t = 8 -> "DataMessageStanza"]

\* C10: once a frame's bytes are read, the tags 0, 1, 2, 3, 4, 7, 8 select
\* heartbeat ping, heartbeat ack, login request, login response, close, iq
\* stanza and data message stanza, and every other signed 8-bit tag fails with
\* an unknown-tag error that carries the tag.
C10_TagTable ==
    (cpc = "ret" /\ result.kind \notin {"TokioIo", "VlqTooLarge"}) =>
        /\ tag = AsI8(source[1])
        /\ tag \in -128..127
        /\ IF tag \in DOMAIN TagTable
           THEN result = IF body_ok THEN Ok(TagTable[tag], tag)
                         ELSE Err("ProstDecode", tag)
           ELSE result = Err("UnknownTag", tag)

\* C10 witness: a frame with tag 99 has failed to decode as unknown tag 99.
C10_Witness ==
    /\ cpc = "ret"
    /\ Len(source) >= 2
    /\ source[1] = 99
    /\ result = Err("UnknownTag", 99)

\* ================================================= claims, under SpecDecrypt
Holders(k) == {i \in 1..Len(app_data) : app_data[i].key = k}

First(S) == CHOOSE i \in S : \A j \in S : i <= j

\* C18: a header lookup returns the first entry, in list order, whose key is
\* the requested one, however many entries carry that key, and returns a
\* missing-data error carrying the requested key exactly when none does.
C18_FirstEntryWins ==
    looked # NoLookup =>
        /\ (dpc = "slice" \/ caller = "lookup") => looked.key = key
        /\ looked.ok <=> Holders(looked.key) # {}
        /\ looked.ok => looked.entry = First(Holders(looked.key))
        /\ ~looked.ok => looked = [ok |-> FALSE, key |-> looked.key, entry |-> 0]
        /\ looked.key \in Keys

\* C18 witness: three entries carry the requested key, the first two with
\* different values, and the lookup has returned the first.
C18_Witness ==
    /\ dpc = "ret"
    /\ caller = "lookup"
    /\ Holders(key) = {1, 2, 3}
    /\ app_data[1].value # app_data[2].value
    /\ looked = [ok |-> TRUE, key |-> key, entry |-> 1]

Returned == outcome # NoOutcome

MissingData(k) == [out |-> "error", err |-> "MissingData", key |-> k]

C13_DecryptNeverPanics ==
    Returned => outcome.out \in {"plaintext", "error"}

\* ================================================== claims, under SpecFrames
RECURSIVE FrameEnd(_)
\* Where the k-th frame of the source ends: each frame is one tag byte, the
\* bytes of its length and its body.
FrameEnd(k) ==
    IF k = 0 THEN 0
    ELSE FrameEnd(k - 1) + 1 + Len(encode_varint(frames[k].len)) + frames[k].len

\* C17: the k-th successful read_message ends exactly where the k-th frame
\* ends (one tag byte, one to four length bytes, the body, not a byte more)
\* and returns the kind that frame's tag selects; a call in progress has
\* consumed nothing past the frame it is reading.
C17_OneFramePerCall ==
    /\ Len(returned) <= Len(frames)
    /\ \A k \in 1..Len(returned) :
          /\ returned[k].pos = FrameEnd(k)
          /\ returned[k].result = Message_decode(frames[k].tag, TRUE)
          /\ Len(encode_varint(frames[k].len)) \in 1..VLQ_MAX_GROUPS
    /\ (cpc = "ret" /\ result.ok) => pos = FrameEnd(Len(returned))
    /\ (cpc # "ret" /\ Len(returned) < Len(frames)) =>
          pos <= FrameEnd(Len(returned) + 1)

\* C17 witness: three frames of different tags and lengths, one with a body
\* of 130 bytes, were returned by three calls.
C17_Witness ==
    /\ Len(returned) = 3
    /\ frames[1].tag = 8 /\ frames[1].len = 130
    /\ frames[2].tag = LoginRequest_TAG
    /\ frames[3].tag = 0 /\ frames[3].len = 1
    /\ returned[3].result = Ok("HeartbeatPing", 0)
    /\ pos = Len(source)

\* The first call on a source that starts with a login frame has returned.
FirstCallDone ==
    /\ frames # <<>>
    /\ frames[1].tag = LoginRequest_TAG
    /\ (cpc = "ret" \/ returned # <<>>)

\* The first call returned the login request the first frame was written from
\* and ended where that frame ends.
LoginRoundTrip ==
    /\ returned # <<>>
    /\ returned[1].result = Ok("LoginRequest", LoginRequest_TAG)
    /\ returned[1].msg = frames[1].msg
    /\ returned[1].pos = FrameEnd(1)

\* C11 as stated: the frame written for any login request is read back by
\* read_message as that login request.
C11_LoginFrameRoundTrip == FirstCallDone => LoginRoundTrip

\* C11: the frame written for a login request whose encoded body is shorter
\* than 2^28 bytes is read back by read_message as that login request.
C11_LoginFrameRoundTripShort ==
    (FirstCallDone /\ frames[1].len < 2^28) => LoginRoundTrip

\* C11 witness: the login frame of a request carrying the ids 2 and 1 was read
\* back with both ids, in that order.
C11_Witness ==
    /\ cpc = "ret"
    /\ frames = <<LoginFrame(BuildLoginRequest(<<2, 1>>))>>
    /\ Len(returned) = 1
    /\ returned[1].msg.received_persistent_id = <<<<50, 50>>, <<49>>>>
    /\ returned[1].msg = BuildLoginRequest(<<2, 1>>)

====
